---- MODULE Spec2Model ----
(***************************************************************************)
(* State-machine model of the streaming audio visualizer                   *)
(* (src/src/lib.rs, src/src/ring_style.rs, src/src/rainbow_style.rs).      *)
(*                                                                         *)
(* SharedAudioProcessor is the facade: add_instance, process_audio_from_   *)
(* path (start), stop_audio, draw (tick) and clear_all.  Every call of     *)
(* process_audio_from_path creates one playback element and one            *)
(* MediaSource; when the MediaSource opens, a streaming task is spawned    *)
(* that fetches the file and runs the read / append / wait-for-updateend   *)
(* loop.  The host (browser) is the environment: it resolves play(), the   *)
(* fetch and the chunk reads, fires sourceopen and updateend, and may tear *)
(* a source buffer down.                                                   *)
(***************************************************************************)
EXTENDS Integers, Sequences, FiniteSets, TLC

\* ------------------------------------------------------------------ bounds
\* number of process_audio_from_path calls explored
MaxSessions == 2
\* number of chunks a response body delivers before it is exhausted
MaxChunks == 2
\* number of registered renderers
MaxInstances == 2
\* number of frames drawn while playing
MaxFrames == 1
\* number of distinct frequency snapshots the analyser may return
NumSnapshots == 2
\* number of distinct callbacks a caller may register with set_on_audio_end
NumCallbacks == 2

\* hue wraps at 360 degrees; the model keeps it in half degrees, so that the
\* ring's step of 0.5 is an integer
HueModulus == 360
HalfDegrees(deg) == 2 * deg

VARIABLES
    is_playing,   \* SharedAudioProcessor.is_playing
    instances,    \* SharedAudioProcessor.instances: Seq of renderer records
    sessions,     \* one record per process_audio_from_path call, in call order
    starting,     \* session whose process_audio_from_path awaits play(), or 0
    dom,          \* the <audio> elements attached to document.body, in order
    frames,       \* number of snapshots pulled from the analyser so far
    tick,         \* what draw() did, when draw() produced the current state
    ret,          \* the index add_instance returned, when it produced the state
    on_audio_end, \* SharedAudioProcessor.on_audio_end: a callback, or 0 for None
    playback,     \* per session: the playback element's ended handler
    rend,         \* one renderer instance with its full drawing state
    rhist,        \* what was done to rend: the last call, the number of draws,
                  \* the last two snapshots drawn and the smoothed values each
                  \* of them found (latest first)
    lastOp        \* the call that produced the current state: "stop" (stop_audio
                  \* returned Ok), "stop_err" (it returned Err), "draw", "add"
                  \* (add_instance returned Ok), "add_err"; "other" after any
                  \* other step

\* the processor and its sessions
pvars == <<is_playing, instances, sessions, starting, dom, frames, tick, ret,
           on_audio_end, playback, lastOp>>
\* one renderer on its own
rvars == <<rend, rhist>>
vars == <<pvars, rvars>>

Styles == {"Visualizer", "Bg"}
Snapshots == 1..NumSnapshots

\* ------------------------------------------------------------- renderers

\* AudioVisualizerInstance::new with Visualizer::new / Bg::new: hue starts at 0
NewInstance(style) == [style |-> style, hue |-> 0, surface |-> "blank"]

\* Visualizer::draw advances hue by 0.5, Bg::draw by 1.0, modulo 360
HueStep(style) == IF style = "Visualizer" THEN 1 ELSE 2

\* AudioVisualizerInstance::draw: dispatch on the style, paint, advance the hue
InstanceDraw(inst, snap) ==
    [inst EXCEPT !.hue = (@ + HueStep(inst.style)) % HalfDegrees(HueModulus),
                 !.surface = "painted"]

\* a clear that also restarts the hue
ClearCanvasReset(inst) == [inst EXCEPT !.surface = "blank", !.hue = 0]

\* AudioVisualizerInstance::clear_canvas: clear_rect over the whole canvas
ClearCanvas(inst) == [inst EXCEPT !.surface = "blank"]

\* SharedAudioProcessor::clear_all: clear_canvas on every instance
ClearAllInstances(insts) == [i \in 1..Len(insts) |-> ClearCanvas(insts[i])]

NoTick == [pulls |-> 0, snap |-> 0, draws |-> <<>>]

\* add_instance returned nothing (another operation ran, or it returned Err)
NoRet == -1

\* an add_instance that returns the length instead of the last index
InstanceIndexOffByOne(insts) == Len(insts)

\* add_instance's result: self.instances.borrow().len() - 1, after the push
InstanceIndex(insts) == Len(insts) - 1

\* on_ended: the closure set as the element's onended, with the clone of
\* on_audio_end it captured; calls are the callbacks it has invoked
NewPlayback(cb) == [cb |-> cb, ended |-> 0, calls |-> <<>>]

\* an ended handler that calls the callback twice
EndedHandlerTwice(pb) ==
    [pb EXCEPT !.calls = IF pb.cb = 0 THEN @ ELSE Append(Append(@, pb.cb), pb.cb)]

\* the body of on_ended: if let Some(callback) = on_audio_end, callback.call0
EndedHandler(pb) ==
    [pb EXCEPT !.calls = IF pb.cb = 0 THEN @ ELSE Append(@, pb.cb)]


\* a draw that forgets the is_playing guard
ShouldDrawAlways(playing) == TRUE

\* SharedAudioProcessor::draw, the guard: return unless is_playing
ShouldDraw(playing) == playing

\* a draw loop that walks the vector backwards
DrawCallsReversed(insts, snap) == [i \in 1..Len(insts) |-> <<Len(insts) + 1 - i, snap>>]

\* SharedAudioProcessor::draw, the loop: instance.draw(&data_array) for every
\* instance in the order of the vector; the calls issued, as <<index, snapshot>>
DrawCalls(insts, snap) == [i \in 1..Len(insts) |-> <<i, snap>>]

\* the renderer states after the calls of DrawCalls
RECURSIVE ApplyDraws(_, _)
ApplyDraws(insts, calls) ==
    IF calls = <<>> THEN insts
    ELSE ApplyDraws(
            [insts EXCEPT ![Head(calls)[1]] = InstanceDraw(@, Head(calls)[2])],
            Tail(calls))

\* ------------------------------------------- the renderers, state in full
\* Numbers are kept exact in integers: Math.random() returns k / RandUnits for
\* k in 0..RandUnits-1; a smoothed value is stored times SmoothUnit, a
\* brightness times RandUnits, a particle speed times RandUnits, a particle
\* position times PosUnit, a particle size times RandUnits.

\* resolution of Math.random()
RandUnits == 8
\* number of draw() calls followed when snapshots and random values vary
MaxRenderDraws == 3
\* number of draw() calls followed on silence with a steady brightness
MaxHueDraws == 725
\* number of draw() calls followed on silence with a drifting brightness
MaxDriftDraws == 14
\* number of random sequences a call may see
NumSeeds == 2
\* the canvas given to the renderer
CanvasWidth == 2
CanvasHeight == 2

\* analyser.set_fft_size(256); frequency_bin_count is half of it
FftSize == 256
\* a frequency bin is a u8
ByteMax == 255
\* the ring renderer's smoothed values and bars
RingBins == 128
Bars == 128
\* the rainbow renderer's fields at construction, and its pool
BgBins == 64
InitialBrightness == 50
BrightnessModulus == 100
Saturation == 100
PoolSize == 100
\* draw_particles averages 20 bins after skipping 10
TrebleSkip == 10
TrebleBins == 20

RECURSIVE Pow2(_)
Pow2(k) == IF k = 0 THEN 1 ELSE 2 * Pow2(k - 1)

SmoothUnit == Pow2(MaxRenderDraws)
PosUnit == RandUnits * TrebleBins * ByteMax

\* Rust's % on f64: the remainder has the sign of the dividend
Fmod(a, m) == IF a >= 0 THEN a % m ELSE -((-a) % m)

\* the j-th value Math.random() returns during a call that sees sequence seed
Rand(seed, j) == (seed + 5 * j) % RandUnits

\* get_byte_frequency_data: the bins of snapshot snap; 0 is silence
Spectrum(snap) ==
    [i \in 1..(FftSize \div 2) |->
        IF snap = 0 THEN 0
        ELSE IF snap % 2 = 1 THEN ByteMax - (snap - 1)
        ELSE (snap * (i - 1)) % (ByteMax + 1)]

\* Visualizer::new
NewVisualizer(width, height) ==
    [style |-> "Visualizer", surface |-> "blank", width |-> width, height |-> height,
     previous_values |-> [i \in 1..RingBins |-> 0], hue |-> 0]

\* a smoothing that keeps a quarter of the new value
SmoothHeavy(value, previous) == (value * SmoothUnit + 3 * previous) \div 4

\* draw_circular_visualizer, one bar: (value + previous_values[i]) / 2.0
Smooth(value, previous) == (value * SmoothUnit + previous) \div 2

\* draw_circular_visualizer: for i in 0..bars, previous_values[i] = smoothed
SmoothAll(previous_values, data) ==
    [i \in 1..Len(previous_values) |->
        IF i <= Bars THEN Smooth(data[i], previous_values[i]) ELSE previous_values[i]]

\* a hue that is advanced without wrapping
HueAdvanceNoWrap(style, hue) == hue + HueStep(style)

\* self.hue = (self.hue + 0.5) % 360.0 in Visualizer::draw,
\* self.hue = (self.hue + 1.0) % 360.0 in Bg::draw
HueAdvance(style, hue) == Fmod(hue + HueStep(style), HalfDegrees(HueModulus))

\* Visualizer::draw
VisualizerDraw(v, data) ==
    [v EXCEPT !.previous_values = SmoothAll(@, data),
              !.hue = HueAdvance(v.style, @),
              !.surface = "painted"]

\* Particle::new, its five random() calls being Rand(seed, j) .. Rand(seed, j + 4)
ParticleNew(width, height, seed, j) ==
    [x        |-> Rand(seed, j) * width * TrebleBins * ByteMax - (width * PosUnit) \div 2,
     y        |-> Rand(seed, j + 1) * height * TrebleBins * ByteMax - (height * PosUnit) \div 2,
     size     |-> Rand(seed, j + 2) * 3 + RandUnits,
     lifetime |-> 0,
     speed_x  |-> Rand(seed, j + 3) * 2 - RandUnits,
     speed_y  |-> Rand(seed, j + 4) * 2 - RandUnits]

\* the test of Particle::update
OutOfBounds(x, y, width, height) ==
    \/ 2 * x > width * PosUnit
    \/ 2 * x < -(width * PosUnit)
    \/ 2 * y > height * PosUnit
    \/ 2 * y < -(height * PosUnit)

\* an update that lets particles leave the surface
ParticleUpdateNoRespawn(p, trebleSum, width, height, seed, j) ==
    [p EXCEPT !.x = @ + p.speed_x * trebleSum,
              !.y = @ + p.speed_y * trebleSum,
              !.lifetime = @ + 1]

\* Particle::update; trebleSum is 20 times treble
ParticleUpdate(p, trebleSum, width, height, seed, j) ==
    LET moved == [p EXCEPT !.x = @ + p.speed_x * trebleSum,
                           !.y = @ + p.speed_y * trebleSum,
                           !.lifetime = @ + 1]
    IN  IF OutOfBounds(moved.x, moved.y, width, height)
        THEN ParticleNew(width, height, seed, j)
        ELSE moved

\* the sum behind treble: audio_data.iter().skip(10).take(20)
RECURSIVE SumBins(_, _, _)
SumBins(data, from, to) ==
    IF from > to THEN 0 ELSE data[from] + SumBins(data, from + 1, to)

TrebleSum(data) == SumBins(data, TrebleSkip + 1, TrebleSkip + TrebleBins)

\* a pool that drops the particles that left the surface
DrawParticlesDropping(particles, data, width, height, seed) ==
    SelectSeq([j \in 1..Len(particles) |->
                  ParticleUpdateNoRespawn(particles[j], TrebleSum(data), width, height, seed, 5 * j)],
              LAMBDA p : ~OutOfBounds(p.x, p.y, width, height))

\* Bg::draw_particles: particle.update on every particle of the pool, in place
DrawParticles(particles, data, width, height, seed) ==
    LET trebleSum == TrebleSum(data)
    IN  [j \in 1..Len(particles) |->
            ParticleUpdate(particles[j], trebleSum, width, height, seed, 5 * j)]

\* Bg::new
NewBg(width, height, seed) ==
    [style |-> "Bg", surface |-> "blank", width |-> width, height |-> height,
     previous_values |-> [i \in 1..BgBins |-> 0], hue |-> 0,
     brightness |-> InitialBrightness * RandUnits, saturation |-> Saturation,
     particles |-> [j \in 1..PoolSize |-> ParticleNew(width, height, seed, 5 * j)]]

\* (self.brightness + (random() * 10.0 - 5.0)) % 100.0, random() being r / RandUnits
BrightnessDrift(brightness, r) ==
    Fmod(brightness + (r * 10 - 5 * RandUnits), BrightnessModulus * RandUnits)

\* Bg::draw; r is the random() of the brightness line
BgDraw(b, data, seed, r) ==
    [b EXCEPT !.particles = DrawParticles(@, data, b.width, b.height, seed),
              !.hue = HueAdvance(b.style, @),
              !.brightness = BrightnessDrift(@, r),
              !.surface = "painted"]

\* AudioVisualizerInstance::draw on the full state
RenderDrawn(r, data, seed, rb) ==
    IF r.style = "Visualizer" THEN VisualizerDraw(r, data) ELSE BgDraw(r, data, seed, rb)

\* --------------------------------------------------------------- the DOM

RemoveAt(list, k) == [j \in 1..(Len(list) - 1) |-> IF j < k THEN list[j] ELSE list[j + 1]]

\* stop_audio's loop over the live collection get_elements_by_tag_name("audio"):
\* length is read once, item(i) is looked up in the collection as it is now
RECURSIVE RemoveAudioLoop(_, _, _)
RemoveAudioLoop(list, i, length) ==
    IF i >= length THEN list
    ELSE RemoveAudioLoop(IF i < Len(list) THEN RemoveAt(list, i + 1) ELSE list,
                         i + 1, length)

\* the number of remove_child calls stop_audio's loop makes
RECURSIVE RemoveCalls(_, _, _)
RemoveCalls(list, i, length) ==
    IF i >= length THEN 0
    ELSE IF i < Len(list) THEN 1 + RemoveCalls(RemoveAt(list, i + 1), i + 1, length)
    ELSE RemoveCalls(list, i + 1, length)

\* the collection stop_audio's loop leaves when its k-th remove_child throws
RECURSIVE RemoveAudioLoopErr(_, _, _, _)
RemoveAudioLoopErr(list, i, length, k) ==
    IF i >= length THEN list
    ELSE IF i < Len(list)
         THEN IF k = 1 THEN list
              ELSE RemoveAudioLoopErr(RemoveAt(list, i + 1), i + 1, length, k - 1)
    ELSE RemoveAudioLoopErr(list, i + 1, length, k)

\* -------------------------------------------------- the streaming session

\* UpdateEndHandler: the closure registered as onupdateend and the oneshot
\* sender it owns; wait is the append the handler was armed for (0: none)
NoHandler == [wait |-> 0, sender |-> FALSE, closure |-> FALSE]

\* the state one process_audio_from_path call creates: the MediaSource is
\* created and attached to the element, waiting for sourceopen
NewSession ==
    [pc          |-> "created",  \* position of the streaming task
     buf         |-> "none",     \* the SourceBuffer: none, open, closed
     reads       |-> 0,          \* chunks the reader has delivered
     appended    |-> <<>>,       \* chunks passed to append_buffer, in order
     eos         |-> 0,          \* end_of_stream calls
     outstanding |-> 0,          \* appends issued whose updateend has not fired
     handler     |-> NoHandler,  \* source_buffer.onupdateend
     sent        |-> FALSE,      \* the current oneshot channel holds a value
     resolved    |-> <<>>,       \* <<wait, ack>>: ack resolved the wait
     logged      |-> FALSE,      \* console::error_1 was called for the task
     stopped     |-> FALSE]      \* stop_audio was called after the session began

\* an arming that keeps the channel of the first wait instead of a fresh one
ArmReuse(ss) ==
    [ss EXCEPT !.handler = [wait |-> IF @.wait # 0 THEN @.wait ELSE Len(ss.appended),
                            sender |-> TRUE, closure |-> TRUE],
               !.sent = FALSE]

\* UpdateEndHandler::new: a fresh channel and closure, set as onupdateend
\* (replacing whatever was registered), armed for the append just issued
Arm(ss) ==
    [ss EXCEPT !.handler = [wait |-> Len(ss.appended), sender |-> TRUE, closure |-> TRUE],
               !.sent = FALSE]

\* the closure body: take the sender and send, then drop the handler
Fire(ss, ack) ==
    IF ss.handler.wait # 0 /\ ss.handler.closure
    THEN [ss EXCEPT !.sent = IF ss.handler.sender THEN TRUE ELSE @,
                    !.resolved = IF ss.handler.sender
                                 THEN Append(@, <<ss.handler.wait, ack>>) ELSE @,
                    !.handler.sender = FALSE,
                    !.handler.closure = FALSE]
    ELSE ss

\* a receiver that never becomes ready
WaitOutcomeNeverReady(ss) == "pending"

\* receiver.await: Ok once a value was sent, Err (Canceled) once the sender was
\* dropped without sending, pending otherwise
WaitOutcome(ss) ==
    IF ss.sent THEN "ok"
    ELSE IF ss.handler.wait # 0 /\ ~ss.handler.sender THEN "err"
    ELSE "pending"

\* a loop body that appends and arms but goes on to the next read without
\* awaiting the acknowledgment
OnChunkNoWait(ss, c) ==
    [ss EXCEPT !.appended = Append(@, c),
               !.outstanding = @ + 1,
               !.handler = [wait |-> Len(ss.appended) + 1, sender |-> TRUE, closure |-> TRUE],
               !.sent = FALSE,
               !.pc = "read"]

\* loop body, a chunk was read: append_buffer, then wait_for_updateend(..).await
OnChunk(ss, c) ==
    Arm([ss EXCEPT !.appended = Append(@, c),
                   !.outstanding = @ + 1,
                   !.pc = "ack"])

\* a done branch that signals end-of-stream but does not leave the loop
OnDoneNoBreak(ss) == [ss EXCEPT !.eos = @ + 1, !.pc = "read"]

\* loop body, done: end_of_stream, break, Ok(())
OnDone(ss) == [ss EXCEPT !.eos = @ + 1, !.pc = "done"]

\* an error path that logs and carries on with the loop
OnErrorRetry(ss) == [ss EXCEPT !.pc = "read", !.logged = TRUE]

\* any `?` in the task: the async block returns Err, which is logged
OnError(ss) == [ss EXCEPT !.pc = "failed", !.logged = TRUE]


\* ------------------------------------------------------------------ Init

NoHistory == [op |-> "none", n |-> 0, snaps |-> <<>>, olds |-> <<>>]

\* no renderer is followed in detail
RenderIdle ==
    /\ rend = [style |-> "none"]
    /\ rhist = NoHistory

\* SharedAudioProcessor::new
ProcessorInit ==
    /\ is_playing = FALSE
    /\ instances = <<>>
    /\ sessions = <<>>
    /\ starting = 0
    /\ dom = <<>>
    /\ frames = 0
    /\ tick = NoTick
    /\ ret = NoRet
    /\ on_audio_end = 0
    /\ playback = <<>>
    /\ lastOp = "other"

Init == ProcessorInit /\ RenderIdle

\* process_audio_from_path borrows the processor mutably (&mut self) until it
\* returns, across its await of play(): no other method runs in between
Unborrowed == starting = 0

\* ------------------------------------------------------- facade operations

\* add_instance: construct the renderer, push it, return its index
AddInstance(style) ==
    /\ Unborrowed
    /\ Len(instances) < MaxInstances
    /\ instances' = Append(instances, NewInstance(style))
    /\ ret' = InstanceIndex(instances')
    /\ lastOp' = "add"
    /\ UNCHANGED rvars
    /\ tick' = NoTick
    /\ UNCHANGED <<is_playing, sessions, starting, dom, frames, on_audio_end, playback>>

\* add_instance when AudioVisualizerInstance::new fails (no 2D context): the
\* `?` returns the error before anything is pushed
AddInstanceFails ==
    /\ Unborrowed
    /\ lastOp' = "add_err"
    /\ ret' = NoRet
    /\ tick' = NoTick
    /\ UNCHANGED <<is_playing, instances, sessions, starting, dom, frames,
                   on_audio_end, playback>>
    /\ UNCHANGED rvars

\* process_audio_from_path up to its await of play(): the element and the
\* MediaSource are created and wired, the handlers registered, play() called
StartBegin ==
    /\ Unborrowed
    /\ Len(sessions) < MaxSessions
    /\ sessions' = Append(sessions, NewSession)
    /\ starting' = Len(sessions) + 1
    /\ lastOp' = "other"
    /\ ret' = NoRet
    /\ UNCHANGED rvars
    /\ tick' = NoTick
    /\ playback' = Append(playback, NewPlayback(on_audio_end))
    /\ UNCHANGED <<is_playing, instances, dom, frames, on_audio_end>>

\* play() resolved: is_playing = true, the element is appended to the body
StartPlayResolved ==
    /\ starting # 0
    /\ is_playing' = TRUE
    /\ dom' = Append(dom, starting)
    /\ starting' = 0
    /\ lastOp' = "other"
    /\ ret' = NoRet
    /\ UNCHANGED rvars
    /\ tick' = NoTick
    /\ UNCHANGED <<instances, sessions, frames, on_audio_end, playback>>

\* play() rejected: the `?` returns the error, nothing else is undone
StartPlayRejected ==
    /\ starting # 0
    /\ starting' = 0
    /\ lastOp' = "other"
    /\ ret' = NoRet
    /\ UNCHANGED rvars
    /\ tick' = NoTick
    /\ UNCHANGED <<is_playing, instances, sessions, dom, frames, on_audio_end, playback>>

\* stop_audio: is_playing = false, then the loop over the audio elements; when
\* every remove_child succeeded, clear_all and Ok(()); when one throws, the `?`
\* returns the error at once, before clear_all
StopAudio ==
    /\ Unborrowed
    /\ is_playing' = FALSE
    /\ sessions' = [s \in 1..Len(sessions) |-> [sessions[s] EXCEPT !.stopped = TRUE]]
    /\ \/ /\ dom' = RemoveAudioLoop(dom, 0, Len(dom))
          /\ instances' = ClearAllInstances(instances)
          /\ lastOp' = "stop"
       \/ \E k \in 1..RemoveCalls(dom, 0, Len(dom)) :
             /\ dom' = RemoveAudioLoopErr(dom, 0, Len(dom), k)
             /\ instances' = instances
             /\ lastOp' = "stop_err"
    /\ tick' = NoTick
    /\ ret' = NoRet
    /\ UNCHANGED <<starting, frames, on_audio_end, playback>>
    /\ UNCHANGED rvars

\* draw
Draw ==
    /\ Unborrowed
    /\ IF ShouldDraw(is_playing)
       THEN /\ frames < MaxFrames
            /\ \E snap \in Snapshots :
                 /\ tick' = [pulls |-> 1, snap |-> snap,
                             draws |-> DrawCalls(instances, snap)]
                 /\ instances' = ApplyDraws(instances, DrawCalls(instances, snap))
            /\ frames' = frames + 1
       ELSE /\ tick' = NoTick
            /\ UNCHANGED <<instances, frames>>
    /\ lastOp' = "draw"
    /\ ret' = NoRet
    /\ UNCHANGED rvars
    /\ UNCHANGED <<is_playing, sessions, starting, dom, on_audio_end, playback>>

\* clear_all
ClearAll ==
    /\ Unborrowed
    /\ instances' = ClearAllInstances(instances)
    /\ lastOp' = "other"
    /\ ret' = NoRet
    /\ UNCHANGED rvars
    /\ tick' = NoTick
    /\ UNCHANGED <<is_playing, sessions, starting, dom, frames, on_audio_end, playback>>

\* set_on_audio_end: replaces the stored callback; closures of sessions already
\* started keep the clone they captured
SetOnAudioEnd(cb) ==
    /\ Unborrowed
    /\ on_audio_end' = cb
    /\ lastOp' = "other"
    /\ ret' = NoRet
    /\ tick' = NoTick
    /\ UNCHANGED <<is_playing, instances, sessions, starting, dom, frames, playback>>
    /\ UNCHANGED rvars

\* ------------------------------------------ the streaming task and the host

TaskStep(s, ss) ==
    /\ sessions' = [sessions EXCEPT ![s] = ss]
    /\ lastOp' = "other"
    /\ ret' = NoRet
    /\ UNCHANGED rvars
    /\ tick' = NoTick
    /\ UNCHANGED <<is_playing, instances, starting, dom, frames, on_audio_end, playback>>

\* sourceopen fires: the task is spawned, add_source_buffer, fetch is issued
SourceOpen(s) ==
    /\ sessions[s].pc = "created"
    /\ \/ TaskStep(s, [sessions[s] EXCEPT !.pc = "fetch", !.buf = "open"])
       \/ TaskStep(s, OnError(sessions[s]))

\* the fetch settles: a response with a body, or a network failure, a
\* non-success response or a missing body
FetchSettled(s) ==
    /\ sessions[s].pc = "fetch"
    /\ \/ TaskStep(s, [sessions[s] EXCEPT !.pc = "read"])
       \/ TaskStep(s, OnError(sessions[s]))

\* reader.read() delivers a chunk: append it and arm the wait, or the append
\* is rejected (always so on a closed buffer)
ReadChunk(s) ==
    /\ sessions[s].pc = "read"
    /\ sessions[s].reads < MaxChunks
    /\ LET got == [sessions[s] EXCEPT !.reads = @ + 1] IN
       \/ /\ got.buf = "open"
          /\ TaskStep(s, OnChunk(got, got.reads))
       \/ TaskStep(s, OnError(got))

\* reader.read() reports done: end_of_stream, or end_of_stream throws (always
\* so once the MediaSource is closed)
ReadDone(s) ==
    /\ sessions[s].pc = "read"
    /\ \/ /\ sessions[s].buf = "open"
          /\ TaskStep(s, OnDone(sessions[s]))
       \/ TaskStep(s, OnError(sessions[s]))

\* reader.read() rejects
ReadFailed(s) ==
    /\ sessions[s].pc = "read"
    /\ TaskStep(s, OnError(sessions[s]))

\* the buffer completes the oldest append in progress and fires updateend
UpdateEnd(s) ==
    /\ sessions[s].buf = "open"
    /\ sessions[s].outstanding > 0
    /\ LET ss == sessions[s]
           ack == Len(ss.appended) - ss.outstanding + 1 IN
       TaskStep(s, Fire([ss EXCEPT !.outstanding = @ - 1], ack))

\* the receiver yields Err: map_err turns it into the task's error
WaitFails(s) ==
    /\ sessions[s].pc = "ack"
    /\ WaitOutcome(sessions[s]) = "err"
    /\ TaskStep(s, OnError(sessions[s]))

\* the task is polled at wait_for_updateend(..).await and the receiver is ready
WaitReturns(s) ==
    /\ sessions[s].pc = "ack"
    /\ \/ /\ WaitOutcome(sessions[s]) = "ok"
          /\ TaskStep(s, [sessions[s] EXCEPT !.pc = "read"])
       \/ WaitFails(s)

\* the host tears the source buffer down under a running loop (the MediaSource
\* is detached or closed): appends in progress are dropped and no updateend is
\* fired.  A teardown after the task has ended changes nothing it observes.
BufferDestroyed(s) ==
    /\ sessions[s].buf = "open"
    /\ sessions[s].pc \in {"read", "ack"}
    /\ TaskStep(s, [sessions[s] EXCEPT !.buf = "closed"])

\* the host fires the element's ended event: playback reached the end of the
\* media, which needs the stream closed by end_of_stream and the element still
\* playing (an element removed from the document is paused); the program
\* never restarts an element, so the event fires once per element
PlaybackEnded(s) ==
    /\ \E k \in 1..Len(dom) : dom[k] = s
    /\ sessions[s].eos > 0
    /\ playback[s].ended = 0
    /\ playback' = [playback EXCEPT ![s] = EndedHandler([@ EXCEPT !.ended = 1])]
    /\ lastOp' = "ended"
    /\ ret' = NoRet
    /\ tick' = NoTick
    /\ UNCHANGED <<is_playing, instances, sessions, starting, dom, frames, on_audio_end>>
    /\ UNCHANGED rvars

Next ==
    \/ \E style \in Styles : AddInstance(style)
    \/ AddInstanceFails
    \/ StartBegin
    \/ StartPlayResolved
    \/ StartPlayRejected
    \/ StopAudio
    \/ Draw
    \/ ClearAll
    \/ \E s \in 1..Len(sessions) : SourceOpen(s)
    \/ \E s \in 1..Len(sessions) : FetchSettled(s)
    \/ \E s \in 1..Len(sessions) : ReadChunk(s)
    \/ \E s \in 1..Len(sessions) : ReadDone(s)
    \/ \E s \in 1..Len(sessions) : ReadFailed(s)
    \/ \E s \in 1..Len(sessions) : UpdateEnd(s)
    \/ \E s \in 1..Len(sessions) : WaitReturns(s)
    \/ \E s \in 1..Len(sessions) : BufferDestroyed(s)

Spec == Init /\ [][Next]_vars

\* the sessions with the ended notification: callbacks are registered and
\* playback ends; the renderers are left out
NextPlayback ==
    \/ \E cb \in 1..NumCallbacks : SetOnAudioEnd(cb)
    \/ StartBegin
    \/ StartPlayResolved
    \/ StartPlayRejected
    \/ StopAudio
    \/ \E s \in 1..Len(sessions) : SourceOpen(s)
    \/ \E s \in 1..Len(sessions) : FetchSettled(s)
    \/ \E s \in 1..Len(sessions) : ReadChunk(s)
    \/ \E s \in 1..Len(sessions) : ReadDone(s)
    \/ \E s \in 1..Len(sessions) : ReadFailed(s)
    \/ \E s \in 1..Len(sessions) : UpdateEnd(s)
    \/ \E s \in 1..Len(sessions) : WaitReturns(s)
    \/ \E s \in 1..Len(sessions) : BufferDestroyed(s)
    \/ \E s \in 1..Len(sessions) : PlaybackEnded(s)

SpecPlayback == Init /\ [][NextPlayback]_vars

\* the streaming loops on their own: sessions are started and the host drives
\* them; the executor polls a task whose receiver is ready (spawn_local wakes
\* it), which is the only fairness assumed
NextLoop ==
    \/ StartBegin
    \/ StartPlayResolved
    \/ StartPlayRejected
    \/ \E s \in 1..Len(sessions) : SourceOpen(s)
    \/ \E s \in 1..Len(sessions) : FetchSettled(s)
    \/ \E s \in 1..Len(sessions) : ReadChunk(s)
    \/ \E s \in 1..Len(sessions) : ReadDone(s)
    \/ \E s \in 1..Len(sessions) : ReadFailed(s)
    \/ \E s \in 1..Len(sessions) : UpdateEnd(s)
    \/ \E s \in 1..Len(sessions) : WaitReturns(s)
    \/ \E s \in 1..Len(sessions) : BufferDestroyed(s)

SpecLoop ==
    /\ Init
    /\ [][NextLoop]_vars
    /\ \A s \in 1..MaxSessions : WF_vars(s <= Len(sessions) /\ WaitReturns(s))


\* ================================================================ claims

Sess == 1..Len(sessions)

\* a session is active while its process_audio_from_path call is in progress,
\* its streaming task is pending or running, or its playback element is
\* attached to the document
TaskAlive(ss) == ss.pc \in {"created", "fetch", "read", "ack"}
Attached(s) == \E k \in 1..Len(dom) : dom[k] = s
Active(s) == TaskAlive(sessions[s]) \/ Attached(s) \/ starting = s
InOrder(seq) == \A k \in 1..Len(seq) : seq[k] = k

\* ---- C1 ----
\* C1: in every reachable state a session has at most one append outstanding;
\* while one is outstanding the loop is suspended at the wait armed for exactly
\* that append, and whenever the loop is about to read the next chunk every
\* append it issued has been acknowledged and has resolved its wait.
C1_OneOutstandingAppend ==
    \A s \in Sess :
        LET ss == sessions[s] IN
        /\ ss.outstanding <= 1
        /\ ss.outstanding = 1 =>
              /\ ss.pc = "ack"
              /\ ss.handler.wait = Len(ss.appended)
              /\ WaitOutcome(ss) = "pending"
        /\ ss.pc = "read" =>
              /\ ss.outstanding = 0
              /\ Len(ss.resolved) = Len(ss.appended)

\* a second append is outstanding after the first one was acknowledged, with a
\* frame drawn in between
C1_Witness ==
    \E s \in Sess :
        /\ Len(sessions[s].appended) = 2
        /\ sessions[s].outstanding = 1
        /\ sessions[s].resolved = << <<1, 1>> >>
        /\ frames > 0

\* ---- C2 ----
\* C2: in the state stop_audio returns in, is_playing is false, no session is
\* active (no streaming task pending or running, no playback element attached)
\* and every registered renderer's surface is cleared.
C2_StopLeavesIdle ==
    lastOp = "stop" =>
        /\ ~is_playing
        /\ \A s \in Sess : ~Active(s)
        /\ \A i \in 1..Len(instances) : instances[i].surface = "blank"

\* ---- C3 ----
\* C3: no reachable state has two sessions active together.
C3_AtMostOneActiveSession ==
    Cardinality({s \in Sess : Active(s)}) <= 1

\* ---- C4 ----
\* C4: once stop_audio has been called, no step appends to a stopped session's
\* buffer, arms a wait for it, signals its end-of-stream or moves its task.
C4_StoppedTaskIssuesNothing ==
    [][\A s \in Sess :
          sessions[s].stopped =>
              /\ sessions'[s].appended = sessions[s].appended
              /\ sessions'[s].eos = sessions[s].eos
              /\ sessions'[s].handler.wait = sessions[s].handler.wait
              /\ sessions'[s].pc = sessions[s].pc]_vars

\* ---- C5 ----
\* C5: the appends of a session are the chunks read so far, in read order; the
\* end-of-stream is signalled at most once and only by a loop that then ended;
\* a loop that ended without error appended every chunk it read (none, for an
\* empty source) and signalled end-of-stream once; after that it issues nothing.
C5_AppendsThenEndOfStream ==
    /\ [](\A s \in Sess :
            LET ss == sessions[s] IN
            /\ InOrder(ss.appended)
            /\ Len(ss.appended) <= ss.reads
            /\ ss.eos <= 1
            /\ ss.eos = 1 => ss.pc = "done"
            /\ ss.pc = "done" => (ss.eos = 1 /\ Len(ss.appended) = ss.reads))
    /\ [][\A s \in Sess :
            sessions[s].pc = "done" =>
                /\ sessions'[s].pc = "done"
                /\ sessions'[s].reads = sessions[s].reads
                /\ sessions'[s].appended = sessions[s].appended
                /\ sessions'[s].eos = sessions[s].eos
                /\ sessions'[s].handler.wait = sessions[s].handler.wait]_vars

\* one loop ended on an empty source without an append, another after
\* appending two chunks
C5_Witness ==
    \E s, r \in Sess :
        /\ sessions[s].pc = "done" /\ sessions[s].appended = <<>>
        /\ sessions[s].eos = 1
        /\ sessions[r].pc = "done" /\ sessions[r].appended = <<1, 2>>
        /\ sessions[r].eos = 1

\* ---- C6 ----
\* C6: a task whose error was logged is Failed, and from then on no step reads
\* a chunk for it, appends, arms a wait, signals end-of-stream or restarts it.
C6_ErrorEndsLoop ==
    /\ [](\A s \in Sess : sessions[s].logged => sessions[s].pc = "failed")
    /\ [][\A s \in Sess :
            sessions[s].logged =>
                /\ sessions'[s].pc = "failed"
                /\ sessions'[s].reads = sessions[s].reads
                /\ sessions'[s].appended = sessions[s].appended
                /\ sessions'[s].eos = sessions[s].eos
                /\ sessions'[s].outstanding = sessions[s].outstanding
                /\ sessions'[s].handler.wait = sessions[s].handler.wait]_vars

\* an append was rejected mid-stream: the second chunk was read, only the
\* first was appended, and the task has failed
C6_Witness ==
    \E s \in Sess :
        /\ sessions[s].pc = "failed"
        /\ sessions[s].reads = 2
        /\ sessions[s].appended = <<1>>
        /\ sessions[s].buf = "open"

\* ---- C7 ----
\* the session state of the spec's state machine, read off the task
SessionState(ss) ==
    IF ss.stopped THEN "Idle"
    ELSE IF ss.pc \in {"created", "fetch"} THEN "Opening"
    ELSE IF ss.pc \in {"read", "ack"} THEN "Streaming"
    ELSE IF ss.pc = "done" THEN "Ended"
    ELSE "Failed"

\* C7 as stated: a draw() call made when every session is stopped, Ended or
\* Failed (or none was started) draws nothing and changes no renderer.
C7_TickNoOpUnlessStreaming ==
    [][(lastOp' = "draw"
        /\ \A s \in Sess : SessionState(sessions[s]) \in {"Idle", "Ended", "Failed"})
       => (instances' = instances /\ tick' = NoTick /\ frames' = frames)]_vars

\* C7 amended: a draw() call made while is_playing is false (before the first
\* start whose play() resolved, and after stop_audio) pulls no snapshot, draws
\* nothing and changes no renderer.
C7_TickNoOpUnlessPlaying ==
    [][(lastOp' = "draw" /\ ~is_playing)
       => (instances' = instances /\ tick' = NoTick /\ frames' = frames)]_vars

\* draw() was called after stop_audio, with a renderer registered
C7_Witness ==
    /\ lastOp = "draw"
    /\ ~is_playing
    /\ Len(instances) > 0
    /\ \E s \in Sess : sessions[s].stopped

\* ---- C8 ----
\* C8: in the state a draw() call made while playing returns in, one snapshot
\* was pulled and draw was called once on every registered renderer, in
\* registration order, each call with that snapshot, and every renderer painted.
C8_TickDrawsEachOnceInOrder ==
    (lastOp = "draw" /\ is_playing) =>
        /\ tick.pulls = 1
        /\ tick.snap \in Snapshots
        /\ Len(tick.draws) = Len(instances)
        /\ \A i \in 1..Len(instances) :
              /\ tick.draws[i] = <<i, tick.snap>>
              /\ instances[i].surface = "painted"

\* a frame was drawn on two renderers of different styles
C8_Witness ==
    /\ lastOp = "draw"
    /\ is_playing
    /\ Len(instances) = 2
    /\ instances[1].style # instances[2].style
    /\ Len(tick.draws) = 2

\* ---- C9 ----
\* C9: the k-th resolution of a session's waits is the wait armed for append k
\* resolved by the acknowledgment of append k, so no wait is resolved twice or
\* by another append's acknowledgment; and a handler that has fired is dropped
\* together with its sender.
C9_WaitResolvedOnceByItsAck ==
    \A s \in Sess :
        LET ss == sessions[s] IN
        /\ Len(ss.resolved) <= Len(ss.appended)
        /\ \A k \in 1..Len(ss.resolved) : ss.resolved[k] = <<k, k>>
        /\ (\E k \in 1..Len(ss.resolved) : ss.resolved[k][1] = ss.handler.wait)
              => (~ss.handler.closure /\ ~ss.handler.sender)

\* two waits were armed in turn and each was resolved by its own acknowledgment
C9_Witness ==
    \E s \in Sess : sessions[s].resolved = << <<1, 1>>, <<2, 2>> >>

\* ---- C10 ----
\* C10: a task suspended at a wait whose buffer was destroyed before the
\* acknowledgment arrived can be resumed with the wait's error.
C10_WaitFailsOnDestroyedBuffer ==
    \A s \in Sess :
        (sessions[s].pc = "ack" /\ sessions[s].buf = "closed" /\ ~sessions[s].sent)
            => ENABLED WaitFails(s)

\* --------------------------------------------- one renderer followed in full

Seeds == 0..(NumSeeds - 1)

Keep2(seq) == IF Len(seq) > 2 THEN SubSeq(seq, 1, 2) ELSE seq

\* add_instance on a fresh processor, the renderer's state kept in full
InitRender ==
    /\ ProcessorInit
    /\ rend \in {NewVisualizer(CanvasWidth, CanvasHeight)}
                \cup {NewBg(CanvasWidth, CanvasHeight, seed) : seed \in Seeds}
    /\ rhist = [NoHistory EXCEPT !.op = "new"]

\* the renderer's draw, called by SharedAudioProcessor::draw with snapshot snap
RenderDraw(snap, seed, r) ==
    /\ \E data \in {Spectrum(snap)} : rend' = RenderDrawn(rend, data, seed, r)
    /\ rhist' = [op    |-> "draw",
                 n     |-> rhist.n + 1,
                 snaps |-> Keep2(<<snap>> \o rhist.snaps),
                 olds  |-> Keep2(<<rend.previous_values>> \o rhist.olds)]
    /\ UNCHANGED pvars

\* clear_canvas, called by clear_all (from the caller, or at the end of
\* stop_audio)
RenderClear ==
    /\ rend' = ClearCanvas(rend)
    /\ rhist' = [rhist EXCEPT !.op = "clear"]
    /\ UNCHANGED pvars

\* a few draws on varying snapshots and random values, with clears in between
NextRender ==
    \/ \E snap \in 0..NumSnapshots : \E seed \in Seeds :
          /\ rhist.n < MaxRenderDraws
          /\ RenderDraw(snap, seed, Rand(seed, 0))
    \/ RenderClear

SpecRender == InitRender /\ [][NextRender]_vars

\* two turns of the hue: many draws on silence, the brightness perturbation in
\* the middle of its range
NextHue ==
    /\ rhist.n < MaxHueDraws
    /\ RenderDraw(0, 0, RandUnits \div 2)

SpecHue == InitRender /\ [][NextHue]_vars

\* draws on silence, the brightness perturbation at either end of its range
NextDrift ==
    \E r \in {0, RandUnits - 1} :
        /\ rhist.n < MaxDriftDraws
        /\ RenderDraw(0, 0, r)

SpecDrift == InitRender /\ [][NextDrift]_vars

\* ---- C11 ----
\* C11: every stop_audio call returns Ok, whatever happens while it detaches
\* the playback elements, and returns with is_playing false and every
\* renderer's surface cleared.
C11_StopSwallowsDetachFailure ==
    /\ lastOp # "stop_err"
    /\ lastOp = "stop" =>
          /\ ~is_playing
          /\ \A i \in 1..Len(instances) : instances[i].surface = "blank"

\* ---- C12 ----
\* C12: a session's ended handler invokes a callback at most once, the
\* callback it invokes is the one registered when the session was started, and
\* the only step that invokes it is the element's ended event (natural end of
\* playback): no step of the streaming task, in particular reading the end of
\* the stream and calling end_of_stream, invokes it.
C12_EndedCallbackOncePerSession ==
    /\ [](\A s \in 1..Len(playback) :
            /\ Len(playback[s].calls) <= 1
            /\ \A k \in 1..Len(playback[s].calls) : playback[s].calls[k] = playback[s].cb)
    /\ [][\A s \in 1..Len(playback') :
            LET before == IF s <= Len(playback) THEN playback[s].calls ELSE <<>> IN
            playback'[s].calls # before =>
                /\ lastOp' = "ended"
                /\ sessions' = sessions
                /\ playback[s].ended = 0
                /\ playback'[s].ended = 1]_vars

\* a session whose stream was exhausted and whose playback then ended called
\* the callback registered at its start, while another exhausted session has
\* called nothing
C12_Witness ==
    \E s, u \in 1..Len(playback) :
        /\ sessions[s].eos = 1
        /\ playback[s].ended = 1
        /\ Len(playback[s].calls) = 1
        /\ sessions[u].eos = 1
        /\ playback[u].calls = <<>>

\* ---- C13 ----
\* C13: the registry starts empty; a successful add_instance appends one
\* renderer and returns the index it was stored at, which is the number of
\* renderers registered before it (the k-th success returns k-1); a failed
\* add_instance leaves the registry as it was; and no other step (draw, stop,
\* clear_all, start, the streaming task) changes the registry's length or the
\* renderer stored at an index.
C13_AddReturnsStableIndex ==
    /\ Len(instances) = 0
    /\ [][/\ lastOp' = "add" =>
               /\ Len(instances') = Len(instances) + 1
               /\ \A i \in 1..Len(instances) : instances'[i] = instances[i]
               /\ ret' = Len(instances)
               /\ instances'[ret' + 1] \in {NewInstance(style) : style \in Styles}
          /\ lastOp' = "add_err" => (instances' = instances /\ ret' = NoRet)
          /\ lastOp' \notin {"add", "add_err"} =>
               /\ Len(instances') = Len(instances)
               /\ \A i \in 1..Len(instances) : instances'[i].style = instances[i].style]_vars

\* the second registration returned 1, after a first one of the other style
C13_Witness ==
    /\ lastOp = "add"
    /\ ret = 1
    /\ Len(instances) = 2
    /\ instances[1].style # instances[2].style

\* ---- C14 ----
\* C14: a clear_canvas call (made by clear_all, and so by stop_audio) blanks
\* the surface and changes nothing else of the renderer: the ring renderer
\* keeps its smoothed values and hue, the rainbow renderer its hue, brightness,
\* saturation and particles.
C14_ClearKeepsInternalState ==
    [][rhist'.op = "clear" =>
          /\ rend'.surface = "blank"
          /\ rend'.style = rend.style
          /\ rend'.hue = rend.hue
          /\ rend'.previous_values = rend.previous_values
          /\ rend.style = "Bg" =>
                /\ rend'.brightness = rend.brightness
                /\ rend'.saturation = rend.saturation
                /\ rend'.particles = rend.particles]_vars

\* a rainbow renderer was cleared after draws that moved its hue, brightness
\* and particles
C14_Witness ==
    /\ rhist.op = "clear"
    /\ rend.style = "Bg"
    /\ rend.surface = "blank"
    /\ rend.hue > 0
    /\ rend.brightness # InitialBrightness * RandUnits
    /\ \E j \in 1..Len(rend.particles) : rend.particles[j].lifetime > 1

\* ---- C15 ----
\* C15: the rainbow renderer's brightness is at least 0 and less than 100
\* after construction and after every draw.
C15_BrightnessInRange ==
    rend.style = "Bg" =>
        /\ 0 <= rend.brightness
        /\ rend.brightness < BrightnessModulus * RandUnits

\* ---- C16 ----
\* C16: the rainbow renderer's pool holds exactly 100 particles after
\* construction and after every draw and clear.
C16_PoolSizeFixed ==
    rend.style = "Bg" => Len(rend.particles) = PoolSize

\* a draw respawned some particles of the pool and moved others
C16_Witness ==
    /\ rend.style = "Bg"
    /\ rhist.op = "draw"
    /\ rhist.n = MaxRenderDraws
    /\ \E j, k \in 1..Len(rend.particles) :
          /\ rend.particles[j].lifetime = 0
          /\ rend.particles[k].lifetime = rhist.n

\* ---- C17 ----
\* C17: after every draw every particle lies within
\* [-width/2, width/2] x [-height/2, height/2]; and in a draw, a particle whose
\* moved position (x + speed_x * treble / 255, y + speed_y * treble / 255) is
\* within those bounds takes that position, keeps its velocity and size and
\* ages by exactly 1, while one whose moved position is outside is replaced by
\* a fresh particle of age 0.
C17_RespawnKeepsParticlesInBounds ==
    [][(rend.style = "Bg" /\ rhist'.op = "draw" /\ rhist'.n = rhist.n + 1) =>
        \A ts \in {TrebleSum(Spectrum(rhist'.snaps[1]))} :
        \A w \in {rend.width * PosUnit} :
        \A h \in {rend.height * PosUnit} :
            \A j \in 1..Len(rend.particles) :
                LET p  == rend.particles[j]
                    q  == rend'.particles[j]
                    nx == p.x + p.speed_x * ts
                    ny == p.y + p.speed_y * ts
                    inside == /\ -w <= 2 * nx
                              /\ 2 * nx <= w
                              /\ -h <= 2 * ny
                              /\ 2 * ny <= h
                IN  /\ -w <= 2 * q.x
                    /\ 2 * q.x <= w
                    /\ -h <= 2 * q.y
                    /\ 2 * q.y <= h
                    /\ inside => /\ q.x = nx
                                 /\ q.y = ny
                                 /\ q.speed_x = p.speed_x
                                 /\ q.speed_y = p.speed_y
                                 /\ q.size = p.size
                                 /\ q.lifetime = p.lifetime + 1
                    /\ ~inside => q.lifetime = 0]_vars

\* after a draw on a sounding snapshot one particle has just been respawned,
\* one respawned a draw earlier has moved, and one has never left the surface
C17_Witness ==
    /\ rend.style = "Bg"
    /\ rhist.op = "draw"
    /\ rhist.n >= 2
    /\ rhist.snaps[1] # 0
    /\ \E j, k, l \in 1..Len(rend.particles) :
          /\ rend.particles[j].lifetime = 0
          /\ rend.particles[k].lifetime = 1
          /\ rend.particles[l].lifetime = rhist.n

\* ---- C18 ----
\* C18: after n draws a renderer's hue is (n * step) mod 360, its hue at
\* construction being 0 and step being 0.5 for the ring and 1 for the rainbow
\* renderer (the model counts half degrees); so it is at least 0 and less
\* than 360.
C18_HueIsDrawCountTimesStep ==
    rend.style \in Styles =>
        /\ rend.hue = (rhist.n * HueStep(rend.style)) % HalfDegrees(HueModulus)
        /\ 0 <= rend.hue
        /\ rend.hue < HalfDegrees(HueModulus)

\* the ring renderer's hue has gone round once: 721 draws leave it at 0.5
C18_Witness ==
    /\ rend.style = "Visualizer"
    /\ rhist.n = HalfDegrees(HueModulus) + 1
    /\ rend.hue = 1

\* ---- C19 ----
\* C19: the ring renderer keeps 128 smoothed values, each between 0 and 255;
\* after a draw of snapshot S on values old, value i is (S[i] + old[i]) / 2;
\* and after draws of S1 then S2 on values smoothed0, value i is
\* (S2[i] + (S1[i] + smoothed0[i]) / 2) / 2.  (Values are stored times
\* SmoothUnit, so the equations are multiplied out.)
C19_SmoothingRecurrence ==
    rend.style = "Visualizer" =>
        /\ Len(rend.previous_values) = RingBins
        /\ \A i \in 1..Len(rend.previous_values) :
              /\ 0 <= rend.previous_values[i]
              /\ rend.previous_values[i] <= ByteMax * SmoothUnit
        /\ rhist.n >= 1 =>
              \A S \in {Spectrum(rhist.snaps[1])} :
              \A i \in 1..RingBins :
                  2 * rend.previous_values[i] = S[i] * SmoothUnit + rhist.olds[1][i]
        /\ rhist.n >= 2 =>
              \A S2 \in {Spectrum(rhist.snaps[1])} :
              \A S1 \in {Spectrum(rhist.snaps[2])} :
              \A i \in 1..RingBins :
                  4 * rend.previous_values[i]
                      = 2 * S2[i] * SmoothUnit + S1[i] * SmoothUnit + rhist.olds[2][i]

\* two different sounding snapshots were drawn in turn on values that an
\* earlier draw had already moved from 0
C19_Witness ==
    /\ rend.style = "Visualizer"
    /\ rhist.n = 3
    /\ rhist.snaps[1] # 0
    /\ rhist.snaps[2] # 0
    /\ rhist.snaps[1] # rhist.snaps[2]
    /\ \E i \in 1..RingBins : rhist.olds[2][i] > 0

\* ---- C20 ----
\* C20: in the state a stop_audio call that returned Ok leaves, no audio
\* element is attached to the document.
C20_StopDetachesEveryElement ==
    lastOp = "stop" => dom = <<>>

\* ---- C21 ----
\* the task of session s is suspended at reader.read()
AtRead(s) == s <= Len(sessions) /\ sessions[s].pc = "read"

\* the task of session s is suspended at wait_for_updateend and the
\* acknowledgment of its append has not arrived
AckAwaited(s) == s <= Len(sessions) /\ sessions[s].pc = "ack" /\ ~sessions[s].sent

\* the loop of session s has been entered and has not ended
LoopRunning(s) == s <= Len(sessions) /\ sessions[s].pc \in {"read", "ack"}

\* the loop of session s has ended: end-of-stream was signalled and the task
\* returned Ok (Ended), or the task returned an error (Failed)
LoopEnded(s) == s <= Len(sessions) /\ sessions[s].pc \in {"done", "failed"}

\* C21: for every session, (a) if every read the loop awaits eventually
\* completes and every acknowledgment it awaits eventually arrives (the source
\* delivers finitely many chunks), a loop that has been entered eventually
\* ends, with end-of-stream signalled or with an error; and (b) a step taken
\* while the loop awaits an acknowledgment that has not arrived leaves it at
\* that await with no further append, and a step taken while it awaits a read
\* appends only if that read completed with a chunk and otherwise leaves it at
\* the read or ends the loop.
C21_LoopEndsOrStaysSuspended ==
    /\ \A s \in 1..MaxSessions :
          ((AtRead(s) ~> ~AtRead(s)) /\ (AckAwaited(s) ~> ~AckAwaited(s)))
              => (LoopRunning(s) ~> LoopEnded(s))
    /\ [][\A s \in 1..MaxSessions :
            /\ AckAwaited(s) =>
                  /\ sessions'[s].pc = "ack"
                  /\ sessions'[s].appended = sessions[s].appended
                  /\ sessions'[s].eos = sessions[s].eos
            /\ AtRead(s) =>
                  /\ sessions'[s].appended # sessions[s].appended
                        => /\ sessions'[s].reads = sessions[s].reads + 1
                           /\ sessions'[s].appended
                                 = Append(sessions[s].appended, sessions'[s].reads)
                  /\ sessions'[s].reads = sessions[s].reads
                        => sessions'[s].pc \in {"read", "done", "failed"}]_vars

\* one loop read every chunk, was acknowledged each time and ended with
\* end-of-stream, while another is suspended for good at an acknowledgment its
\* destroyed buffer will never send
C21_Witness ==
    \E s, u \in 1..Len(sessions) :
        /\ sessions[s].pc = "done"
        /\ Len(sessions[s].appended) = MaxChunks
        /\ sessions[s].eos = 1
        /\ sessions[u].pc = "ack"
        /\ sessions[u].buf = "closed"
        /\ ~sessions[u].sent

====
